---- MODULE Spec2Model ----
(***************************************************************************)
(* Model of src/app.py: start-up (model and configuration loading) and the *)
(* two-stage decision policy full_classify with its helpers.               *)
(*                                                                         *)
(* Numbers.  Decision scores are Python floats.  They are modelled as      *)
(* integers counting quarters of a thousandth (1.0 is 4000), so that a     *)
(* value can lie below, exactly on, or above the half-way point between    *)
(* two 3-decimal values and round(x, 3) is a real conversion.  Values that *)
(* round() returns are multiples of 4 in the same unit.                    *)
(*                                                                         *)
(* Oracles.  The two joblib models are opaque: an invocation either raises *)
(* or returns a value drawn from a small set (one score per class for      *)
(* decision_function of the attribution model, one score for the binary    *)
(* model, one label for predict).                                          *)
(***************************************************************************)
EXTENDS Integers, Sequences, FiniteSets, TLC

\* ---------------------------------------------------------------- bounds
MaxTextLen == 3
MaxClasses == 4

\* ------------------------------------------------------------- constants
TopK == 3

Milli(n) == 4 * n

Min(a, b) == IF a < b THEN a ELSE b

Abs(x) == IF x < 0 THEN -x ELSE x

\* round(x, 3): nearest thousandth, an exact half goes to the even one.
Round3(q) ==
    LET f == q \div 4
        r == q % 4
    IN  Milli(IF r < 2 THEN f
              ELSE IF r > 2 THEN f + 1
              ELSE IF f % 2 = 0 THEN f ELSE f + 1)

\* ------------------------------------------------------------ input sets
Chars == {" ", "a"}
Whitespace == {" "}
Texts == UNION {[1..n -> Chars] : n \in 0..MaxTextLen}

ClassUniverse ==
    <<"bloom_style", "gpt_style", "human_story", "llama_style",
      "mistral_style", "opt_style", "palm_style", "t5_style">>

\* classes_ of the attribution model found on disk: with and without the
\* sentinel, the sentinel first or later, 1 .. MaxClasses classes.
ClassLists ==
    {SubSeq(ClassUniverse, i, i + n - 1) :
        i \in {1, 3}, n \in 1..Min(MaxClasses, Len(ClassUniverse) - 2)}

HumanAiLabels == {"human", "ai"}
HumanAiScores == {-2000, 1997, 1998}
AttribScores == {-597, 0, 598}

DefaultConfig ==
    [min_words |-> 30,
     human_confidence_threshold |-> Milli(500),
     attrib_confidence_gap |-> Milli(150)]

\* contents of a parseable config.json
ConfigFiles ==
    {[min_words |-> 2, human_confidence_threshold |-> Milli(500),
      attrib_confidence_gap |-> Milli(150)],
     [min_words |-> 1, human_confidence_threshold |-> 1998,
      attrib_confidence_gap |-> 598],
     [min_words |-> 0, human_confidence_threshold |-> 0,
      attrib_confidence_gap |-> 0]}

ConfigResourceStates == {"absent", "unreadable", "malformed", "valid"}

\* ------------------------------------------------------------------ state
VARIABLES
    diskModels,     \* "ok" / "missing": can joblib.load read the two models
    diskClasses,    \* classes_ of the attribution model stored on disk
    cfgResource,    \* state of saved_models/config.json
    cfgContent,     \* what config.json parses to when it is valid
    phase,          \* "load_models", "load_config", "serving", "crashed"
    attrib_model,   \* classes_ of the loaded attribution model (<<>> before)
    CONFIG,         \* the module-level CONFIG (NoConfig before load)
    pc,             \* position inside full_classify
    request,        \* the text ui_wrapper passed to full_classify
    text,           \* local text of full_classify
    word_count,     \* local word_count
    score,          \* local score of human_ai_decision
    hvai,           \* local hvai
    scores,         \* local scores of classify_with_confidence
    ranked,         \* value returned by classify_with_confidence
    attrib,         \* local attrib
    result,         \* value returned by full_classify
    exc,            \* exception that left full_classify ("none" if none)
    calls           \* invocations of the oracles during the current call

vars == <<diskModels, diskClasses, cfgResource, cfgContent, phase,
          attrib_model, CONFIG, pc, request, text, word_count, score, hvai, scores,
          ranked, attrib, result, exc, calls>>

env == <<diskModels, diskClasses, cfgResource, cfgContent>>
globals == <<phase, attrib_model, CONFIG>>
locals == <<request, text, word_count, score, hvai, scores, ranked, attrib>>

NoConfig == [loaded |-> FALSE]
NoResult == [final_label |-> "none"]
NoHvai == [label |-> "none"]
NoAttrib == [predicted_model |-> "none"]
NoScore == 0 * 1
NoCalls == [human_ai_decision_function |-> 0,
            human_ai_predict |-> 0,
            attrib_decision_function |-> 0]

Init ==
    /\ diskModels \in {"ok", "missing"}
    /\ diskClasses \in ClassLists
    /\ cfgResource \in ConfigResourceStates
    /\ cfgContent \in ConfigFiles
    /\ phase = "load_models"
    /\ attrib_model = <<>>
    /\ CONFIG = NoConfig
    /\ pc = "idle"
    /\ request = <<>>
    /\ text = <<>>
    /\ word_count = 0
    /\ score = NoScore
    /\ hvai = NoHvai
    /\ scores = <<>>
    /\ ranked = <<>>
    /\ attrib = NoAttrib
    /\ result = NoResult
    /\ exc = "none"
    /\ calls = NoCalls

\* ---------------------------------------------------------------- start-up
\* lines 12-13: joblib.load of both models; a failure ends the process.
LoadModels ==
    /\ phase = "load_models"
    /\ IF diskModels = "ok"
         THEN /\ attrib_model' = diskClasses
              /\ phase' = "load_config"
         ELSE /\ attrib_model' = attrib_model
              /\ phase' = "crashed"
    /\ UNCHANGED <<env, CONFIG, pc, locals, result, exc, calls>>

\* lines 16-25 with the spec's reading: an unreadable file gives defaults.
LoadConfigLenient ==
    /\ phase = "load_config"
    /\ IF cfgResource \in {"absent", "unreadable"}
         THEN CONFIG' = DefaultConfig /\ phase' = "serving"
         ELSE IF cfgResource = "valid"
                THEN CONFIG' = cfgContent /\ phase' = "serving"
                ELSE CONFIG' = CONFIG /\ phase' = "crashed"
    /\ UNCHANGED <<env, attrib_model, pc, locals, result, exc, calls>>

\* lines 16-25.  os.path.exists is false only for an absent file; open()
\* raises on a file that exists but cannot be read, json.load raises on
\* text that is not JSON; nothing catches either, so the import fails.
LoadConfig ==
    /\ phase = "load_config"
    /\ IF cfgResource = "absent"
         THEN CONFIG' = DefaultConfig /\ phase' = "serving"
         ELSE IF cfgResource = "valid"
                THEN CONFIG' = cfgContent /\ phase' = "serving"
                ELSE CONFIG' = CONFIG /\ phase' = "crashed"
    /\ UNCHANGED <<env, attrib_model, pc, locals, result, exc, calls>>

\* ------------------------------------------------------------ pure helpers
RECURSIVE LStrip(_)
LStrip(s) ==
    IF s = <<>> THEN s
    ELSE IF Head(s) \in Whitespace THEN LStrip(Tail(s)) ELSE s

RECURSIVE RStrip(_)
RStrip(s) ==
    IF s = <<>> THEN s
    ELSE IF s[Len(s)] \in Whitespace
           THEN RStrip(SubSeq(s, 1, Len(s) - 1)) ELSE s

\* str.strip()
Strip(s) == RStrip(LStrip(s))

RECURSIVE SplitFrom(_, _, _)
SplitFrom(s, cur, acc) ==
    LET flushed == IF cur = <<>> THEN acc ELSE Append(acc, cur)
    IN  IF s = <<>> THEN flushed
        ELSE IF Head(s) \in Whitespace
               THEN SplitFrom(Tail(s), <<>>, flushed)
               ELSE SplitFrom(Tail(s), Append(cur, Head(s)), acc)

\* str.split(): the maximal runs of non-whitespace characters
Split(s) == SplitFrom(s, <<>>, <<>>)

\* sorted(..., key=score, reverse=False): ascending
SortedAscending(pairs) ==
    LET n == Len(pairs)
        pos(i) == 1 + Cardinality({j \in 1..n :
                        \/ pairs[j][2] < pairs[i][2]
                        \/ pairs[j][2] = pairs[i][2] /\ j < i})
    IN  [k \in 1..n |-> pairs[CHOOSE i \in 1..n : pos(i) = k]]

\* sorted(pairs, key=lambda x: x[1], reverse=True): descending by score;
\* Python's sort is stable also with reverse=True, so equal scores keep
\* their order in classes_.
SortedDescending(pairs) ==
    LET n == Len(pairs)
        pos(i) == 1 + Cardinality({j \in 1..n :
                        \/ pairs[j][2] > pairs[i][2]
                        \/ pairs[j][2] = pairs[i][2] /\ j < i})
    IN  [k \in 1..n |-> pairs[CHOOSE i \in 1..n : pos(i) = k]]

\* zip(classes, scores)
Zip(classes, sc) == [i \in 1..Min(Len(classes), Len(sc)) |-> <<classes[i], sc[i]>>]

\* ranked (no slice)
Unsliced(seq, k) == seq

\* seq[:k]
Slice(seq, k) == SubSeq(seq, 1, Min(k, Len(seq)))

\* lines 35-40 of classify_with_confidence
Ranked(classes, sc, top_k) == Slice(SortedDescending(Zip(classes, sc)), top_k)

\* one more invocation of an oracle method, and a repeated one
InvokedTwice(c, method) == [c EXCEPT ![method] = @ + 2]
Invoke(c, method) == [c EXCEPT ![method] = @ + 1]

\* line 73: len(text.split())
WordCount(t) == Len(Split(t))

\* line 76 with <= for <
TooShortInclusive(wc, cfg) == wc <= cfg.min_words

\* line 76
TooShort(wc, cfg) == wc < cfg.min_words

\* lines 64-68 without abs()
HumanAiResultSigned(label, sc) ==
    [label |-> label, confidence |-> Round3(sc), raw_score |-> Round3(sc)]

\* lines 64-68
HumanAiResult(label, sc) ==
    [label |-> label,
     confidence |-> Round3(Abs(sc)),
     raw_score |-> Round3(sc)]

\* line 85 with > for >=
ConfidentHumanStrict(h, cfg) ==
    h.label = "human" /\ h.confidence > cfg.human_confidence_threshold

\* line 85
ConfidentHuman(h, cfg) ==
    h.label = "human" /\ h.confidence >= cfg.human_confidence_threshold

\* lines 46-57, for a ranked list with at least two entries
AttributionResult(rk) ==
    [predicted_model |-> rk[1][1],
     confidence_gap |-> Round3(rk[1][2] - rk[2][2]),
     top_candidates |-> [i \in 1..Len(rk) |-> <<rk[i][1], Round3(rk[i][2])>>]]

\* lines 94-110 with the gap test ahead of the sentinel test
Stage2VerdictGapFirst(a, cfg) ==
    IF a.confidence_gap < cfg.attrib_confidence_gap
      THEN [final_label |-> "ai_uncertain", details |-> a]
      ELSE IF a.predicted_model = "human_story"
             THEN [final_label |-> "human", details |-> a]
             ELSE [final_label |-> "ai",
                   predicted_model |-> a.predicted_model, details |-> a]

\* lines 94-110 with <= for < in the gap test
Stage2VerdictInclusive(a, cfg) ==
    IF a.predicted_model = "human_story"
      THEN [final_label |-> "human", details |-> a]
      ELSE IF a.confidence_gap <= cfg.attrib_confidence_gap
             THEN [final_label |-> "ai_uncertain", details |-> a]
             ELSE [final_label |-> "ai",
                   predicted_model |-> a.predicted_model, details |-> a]

\* lines 94-110
Stage2Verdict(a, cfg) ==
    IF a.predicted_model = "human_story"
      THEN [final_label |-> "human", details |-> a]
      ELSE IF a.confidence_gap < cfg.attrib_confidence_gap
             THEN [final_label |-> "ai_uncertain", details |-> a]
             ELSE [final_label |-> "ai",
                   predicted_model |-> a.predicted_model, details |-> a]

\* an exception answered with a default verdict instead of propagating
RaiseSwallowed(e) ==
    /\ pc' = "done"
    /\ exc' = e
    /\ result' = [final_label |-> "uncertain", reason |-> e]

\* An exception inside full_classify: no try/except anywhere on the path
\* (lines 31-110), so it leaves full_classify and no value is returned.
Raise(e) ==
    /\ pc' = "raised"
    /\ exc' = e
    /\ result' = NoResult

\* ------------------------------------------------------------ full_classify
\* lines 150-151 and 72-73: ui_wrapper calls full_classify(text)
Request ==
    /\ phase = "serving"
    /\ pc = "idle"
    /\ \E t \in Texts :
         /\ request' = t
         /\ text' = Strip(t)
         /\ word_count' = WordCount(Strip(t))
    /\ pc' = "guardrail"
    /\ UNCHANGED <<env, globals, score, hvai, scores, ranked, attrib,
                   result, exc, calls>>

\* lines 76-80
Guardrail ==
    /\ pc = "guardrail"
    /\ IF TooShort(word_count, CONFIG)
         THEN /\ result' = [final_label |-> "uncertain",
                            reason |-> <<"Text too short", word_count, "words">>]
              /\ pc' = "done"
         ELSE /\ result' = result
              /\ pc' = "human_ai_score"
    /\ UNCHANGED <<env, globals, locals, exc, calls>>

\* line 61: human_ai_model.decision_function([text])[0]
HumanAiScore ==
    /\ pc = "human_ai_score"
    /\ calls' = Invoke(calls, "human_ai_decision_function")
    /\ \/ /\ \E sc \in HumanAiScores : score' = sc
          /\ pc' = "human_ai_predict"
          /\ UNCHANGED <<result, exc>>
       \/ /\ Raise("OracleError")
          /\ score' = score
    /\ UNCHANGED <<env, globals, request, text, word_count, hvai, scores,
                   ranked, attrib>>

\* lines 62-68: human_ai_model.predict([text])[0], then the result record
HumanAiPredict ==
    /\ pc = "human_ai_predict"
    /\ calls' = Invoke(calls, "human_ai_predict")
    /\ \/ /\ \E label \in HumanAiLabels : hvai' = HumanAiResult(label, score)
          /\ pc' = "stage1_gate"
          /\ UNCHANGED <<result, exc>>
       \/ /\ Raise("OracleError")
          /\ hvai' = hvai
    /\ UNCHANGED <<env, globals, request, text, word_count, score, scores,
                   ranked, attrib>>

\* lines 85-89
Stage1Gate ==
    /\ pc = "stage1_gate"
    /\ IF ConfidentHuman(hvai, CONFIG)
         THEN /\ result' = [final_label |-> "human", details |-> hvai]
              /\ pc' = "done"
         ELSE /\ result' = result
              /\ pc' = "classify_with_confidence"
    /\ UNCHANGED <<env, globals, locals, exc, calls>>

\* lines 44 and 31-40: classify_with_confidence(text, attrib_model)
ClassifyWithConfidence ==
    /\ pc = "classify_with_confidence"
    /\ calls' = Invoke(calls, "attrib_decision_function")
    /\ \/ /\ \E sc \in [1..Len(attrib_model) -> AttribScores] :
               /\ scores' = sc
               /\ ranked' = Ranked(attrib_model, sc, TopK)
          /\ pc' = "safe_attribution"
          /\ UNCHANGED <<result, exc>>
       \/ /\ Raise("OracleError")
          /\ UNCHANGED <<scores, ranked>>
    /\ UNCHANGED <<env, globals, request, text, word_count, score, hvai,
                   attrib>>

\* lines 46-57 with a missing second candidate read as score 0
SafeAttributionPadded ==
    /\ pc = "safe_attribution"
    /\ attrib' = AttributionResult(
                    IF Len(ranked) < 2
                      THEN Append(ranked, <<"none", 0>>) ELSE ranked)
    /\ pc' = "stage2_verdict"
    /\ UNCHANGED <<env, globals, request, text, word_count, score, hvai,
                   scores, ranked, result, exc, calls>>

\* lines 46-57: ranked[1] raises IndexError when there is one candidate
SafeAttribution ==
    /\ pc = "safe_attribution"
    /\ IF Len(ranked) < 2
         THEN /\ Raise("IndexError")
              /\ attrib' = attrib
         ELSE /\ attrib' = AttributionResult(ranked)
              /\ pc' = "stage2_verdict"
              /\ UNCHANGED <<result, exc>>
    /\ UNCHANGED <<env, globals, request, text, word_count, score, hvai,
                   scores, ranked, calls>>

\* lines 94-110
Stage2 ==
    /\ pc = "stage2_verdict"
    /\ result' = Stage2Verdict(attrib, CONFIG)
    /\ pc' = "done"
    /\ UNCHANGED <<env, globals, locals, exc, calls>>

\* full_classify has returned or raised: its frame is gone and the next
\* click starts a new call.
Return ==
    /\ pc \in {"done", "raised"}
    /\ pc' = "idle"
    /\ request' = <<>>
    /\ text' = <<>>
    /\ word_count' = 0
    /\ score' = NoScore
    /\ hvai' = NoHvai
    /\ scores' = <<>>
    /\ ranked' = <<>>
    /\ attrib' = NoAttrib
    /\ result' = NoResult
    /\ exc' = "none"
    /\ calls' = NoCalls
    /\ UNCHANGED <<env, globals>>

Next ==
    \/ LoadModels
    \/ LoadConfig
    \/ Request
    \/ Guardrail
    \/ HumanAiScore
    \/ HumanAiPredict
    \/ Stage1Gate
    \/ ClassifyWithConfidence
    \/ SafeAttribution
    \/ Stage2
    \/ Return

Spec == Init /\ [][Next]_vars

TypeOK ==
    /\ phase \in {"load_models", "load_config", "serving", "crashed"}
    /\ pc \in {"idle", "guardrail", "human_ai_score", "human_ai_predict",
               "stage1_gate", "classify_with_confidence", "safe_attribution",
               "stage2_verdict", "done", "raised"}
    /\ exc \in {"none", "OracleError", "IndexError"}

\* ------------------------------------------------------------------ claims
Verdicts == {"human", "ai", "ai_uncertain", "uncertain"}

\* words of a text, counted without str.split(): the positions where a
\* non-whitespace character starts a run
Words(t) ==
    Cardinality({i \in 1..Len(t) :
        t[i] \notin Whitespace /\ (i = 1 \/ t[i - 1] \in Whitespace)})

PastGuardrail == phase = "serving" /\ pc \notin {"idle", "guardrail"}

Stage1Complete ==
    \/ pc \in {"stage1_gate", "classify_with_confidence", "safe_attribution",
               "stage2_verdict"}
    \/ pc = "done" /\ result.final_label # "uncertain"
    \/ pc = "raised" /\ calls.attrib_decision_function > 0

\* C1: once the guardrail has decided, a request whose text has fewer than
\* min_words whitespace-separated words has ended with final_label
\* "uncertain" and no oracle method has been invoked; a request with at
\* least min_words words never carries "uncertain".
C1_LengthGuardrail ==
    PastGuardrail =>
        IF Words(request) < CONFIG.min_words
          THEN /\ pc = "done"
               /\ result.final_label = "uncertain"
               /\ calls = NoCalls
          ELSE result.final_label # "uncertain"

C1_Witness ==
    /\ pc = "done"
    /\ Words(request) = 1
    /\ Len(request) = 3
    /\ CONFIG.min_words = 2
    /\ result.final_label = "uncertain"

\* C2: once the stage-1 gate has decided, a request whose stage-1 label is
\* "human" and whose confidence round(abs(score), 3) is at least
\* human_confidence_threshold has ended with final_label "human", the
\* Human/AI result as details, and no invocation of the attribution oracle.
C2_ConfidentHumanExit ==
    (/\ PastGuardrail
     /\ pc \notin {"human_ai_score", "human_ai_predict", "stage1_gate"}
     /\ hvai.label = "human"
     /\ Round3(Abs(score)) >= CONFIG.human_confidence_threshold)
    => /\ pc = "done"
       /\ result = [final_label |-> "human",
                    details |-> [label |-> "human",
                                 confidence |-> Round3(Abs(score)),
                                 raw_score |-> Round3(score)]]
       /\ calls.attrib_decision_function = 0

C2_Witness ==
    /\ pc = "done"
    /\ result.final_label = "human"
    /\ hvai.label = "human"
    /\ score < 0
    /\ hvai.confidence = CONFIG.human_confidence_threshold
    /\ CONFIG.human_confidence_threshold > 0

\* C3: when stage 2 has produced an attribution result whose top-ranked
\* class is "human_story", the verdict is "human" with that result as
\* details, whatever the confidence gap.
C3_SentinelFirst ==
    (pc = "done" /\ attrib # NoAttrib /\ ranked[1][1] = "human_story")
    => result = [final_label |-> "human", details |-> attrib]

C3_Witness ==
    /\ pc = "done"
    /\ attrib # NoAttrib
    /\ ranked[1][1] = "human_story"
    /\ attrib.confidence_gap < CONFIG.attrib_confidence_gap
    /\ result.final_label = "human"

\* C4: when stage 2 has produced an attribution result whose top-ranked
\* class is not "human_story", the verdict is "ai_uncertain" exactly when
\* the reported confidence_gap is strictly below attrib_confidence_gap and
\* "ai" otherwise; "ai" carries the rank-0 class as predicted_model and the
\* attribution result as details.
C4_GapDecides ==
    (pc = "done" /\ attrib # NoAttrib /\ ranked[1][1] # "human_story")
    => IF attrib.confidence_gap < CONFIG.attrib_confidence_gap
         THEN result = [final_label |-> "ai_uncertain", details |-> attrib]
         ELSE result = [final_label |-> "ai",
                        predicted_model |-> ranked[1][1],
                        details |-> attrib]

C4_Witness ==
    /\ pc = "done"
    /\ attrib # NoAttrib
    /\ result.final_label = "ai"
    /\ attrib.confidence_gap = CONFIG.attrib_confidence_gap
    /\ CONFIG.attrib_confidence_gap > 0

\* C5: when an oracle invocation has failed, full_classify has raised and
\* returned nothing; a verdict is only ever present without an exception.
C5_FailurePropagates ==
    /\ exc # "none" => pc = "raised"
    /\ pc = "raised" => result = NoResult /\ exc # "none"
    /\ result.final_label \in Verdicts => exc = "none" /\ pc = "done"

C5_Witness ==
    /\ exc = "OracleError"
    /\ pc = "raised"
    /\ calls.attrib_decision_function = 1
    /\ result = NoResult

C7_Original ==
    pc = "safe_attribution" => Len(ranked) = Len(attrib_model)

\* C7 amended: the list classify_with_confidence returns has min(N, top_k)
\* entries (top_k = 3), is not empty, is sorted descending by score, and no
\* class left out scores higher than its last entry.
C7_TopKRanked ==
    pc = "safe_attribution" =>
        /\ Len(ranked) = Min(Len(attrib_model), TopK)
        /\ Len(ranked) >= 1
        /\ \A i, j \in 1..Len(ranked) : i < j => ranked[i][2] >= ranked[j][2]
        /\ \A i \in 1..Len(ranked) :
              \E c \in 1..Len(attrib_model) :
                  ranked[i] = <<attrib_model[c], scores[c]>>
        /\ \A c \in 1..Len(attrib_model) :
              \/ \E i \in 1..Len(ranked) : ranked[i][1] = attrib_model[c]
              \/ scores[c] <= ranked[Len(ranked)][2]

C7_Witness ==
    /\ pc = "safe_attribution"
    /\ Len(attrib_model) = 4
    /\ Len(ranked) = 3
    /\ ranked[1][2] > ranked[3][2]

\* the two highest scores the oracle returned, over all of its classes
Best == CHOOSE i \in DOMAIN scores : \A j \in DOMAIN scores : scores[i] >= scores[j]
Second ==
    CHOOSE k \in DOMAIN scores \ {Best} :
        \A j \in DOMAIN scores \ {Best} : scores[k] >= scores[j]

\* C8: every attribution result has confidence_gap equal to the rounded
\* difference of the two highest scores over all classes of the oracle, and
\* the gap is not negative.
C8_GapOfTopTwo ==
    attrib # NoAttrib =>
        /\ Len(attrib_model) >= 2
        /\ attrib.confidence_gap = Round3(scores[Best] - scores[Second])
        /\ attrib.confidence_gap >= 0

C8_Witness ==
    /\ attrib # NoAttrib
    /\ Len(attrib_model) = 4
    /\ scores[4] > scores[1]
    /\ scores[4] = scores[3]
    /\ attrib.confidence_gap = 0

\* C9 as stated: an attribution oracle with fewer than 2 classes is refused
\* at start-up, so the process never serves.
C9_Original ==
    Len(diskClasses) < 2 => phase # "serving"

\* C9 amended: nothing is checked at start-up.  With fewer than 2 classes
\* the process serves; a request that reaches stage 2 raises IndexError on
\* reading the second candidate and returns nothing, the gap is never
\* computed, and IndexError arises in no other configuration.
C9_PerRequestIndexError ==
    /\ exc = "IndexError" =>
          /\ Len(attrib_model) < 2
          /\ pc = "raised"
          /\ result = NoResult
    /\ (phase = "serving" /\ Len(attrib_model) < 2) =>
          /\ attrib = NoAttrib
          /\ pc # "stage2_verdict"
          /\ result.final_label \notin {"ai", "ai_uncertain"}
          /\ (pc = "raised" /\ ranked # <<>>) => exc = "IndexError"
          /\ (pc = "done" /\ result.final_label = "human")
                => result.details = hvai

C9_Witness ==
    /\ Len(attrib_model) = 1
    /\ exc = "IndexError"
    /\ pc = "raised"
    /\ calls.attrib_decision_function = 1

Booted == diskModels = "ok" /\ phase \in {"serving", "crashed"}

\* C10 as stated: an absent or unreadable config resource gives the
\* defaults, a malformed one stops the start-up, a valid one is used.
C10_Original ==
    Booted =>
        CASE cfgResource \in {"absent", "unreadable"} ->
                phase = "serving" /\ CONFIG = DefaultConfig
          [] cfgResource = "malformed" -> phase = "crashed"
          [] cfgResource = "valid" ->
                phase = "serving" /\ CONFIG = cfgContent

\* C10 amended: an absent config resource gives the defaults; one that is
\* present but unreadable, or present but not JSON, stops the start-up and
\* no request is served; a valid one is used as parsed.  In every state of
\* every request CONFIG still has the loaded value.
C10_ConfigLoad ==
    /\ Booted =>
          CASE cfgResource = "absent" ->
                  phase = "serving" /\ CONFIG = DefaultConfig
            [] cfgResource \in {"unreadable", "malformed"} ->
                  phase = "crashed"
            [] cfgResource = "valid" ->
                  phase = "serving" /\ CONFIG = cfgContent
    /\ phase = "crashed" =>
          pc = "idle" /\ result = NoResult /\ calls = NoCalls
    /\ phase = "serving" => CONFIG \in ConfigFiles \cup {DefaultConfig}
    /\ phase # "serving" => CONFIG = NoConfig

C10_Witness ==
    /\ cfgResource = "valid"
    /\ CONFIG = cfgContent
    /\ pc = "done"
    /\ result.final_label = "ai"

====
